---- MODULE Spec2Model ----
(***************************************************************************)
(* Process lifecycle of src/main.py: directory setup, asyncio.run(main()), *)
(* the startup text, signal-handler registration, the idle loop and the    *)
(* shutdown paths (signal, injected fault, failed directory creation).     *)
(*                                                                         *)
(* pc names the source line of the next statement of the main thread       *)
(* ("L54" is line 54 of src/main.py).  Positions inside asyncio.run that   *)
(* have no line in src/main.py are "start" (main task created, not yet     *)
(* stepped), "ret" (main() has returned or raised, the task is done),      *)
(* "cleanup" (asyncio.run cancels the remaining tasks), "close" (the loop  *)
(* is closed) and "end" (asyncio.run has returned or raised at line 58).   *)
(***************************************************************************)
EXTENDS Integers, Sequences, FiniteSets

\* Bounds of the model.
MaxSignals == 2   \* signals the environment delivers in one execution
MaxIter == 2      \* completed idle-loop iterations that are counted

VARIABLES
  py,          \* the runtime: "py37", "py38" (3.8 - 3.10) or "py311" (3.11+)
  fs0,         \* the kind of logs/ and data/ when the process starts
  fs,          \* the kind of logs/ and data/ now
  writable,    \* whether the working directory allows creating entries
  pc,          \* position of the main thread
  phase,       \* "module", "run" (run_until_complete(main())), "shutdown"
  task,        \* the main task: "none", "unstarted", "running", "suspended", "finished"
  exc,         \* the exception propagating in the main thread, or "none"
  saved,       \* the exception asyncio.run re-raises after its cleanup
  handlers,    \* the disposition of SIGINT and SIGTERM
  setupDone,   \* setup_signal_handlers() has returned
  mustCancel,  \* Task._must_cancel of the main task
  interrupts,  \* Runner._interrupt_count (3.11+)
  stdout,      \* the lines printed so far
  logging,     \* the root logger has been configured (logging.basicConfig)
  status,      \* "running", "exited" or "killed"
  exitCode,    \* the exit status, -1 while running
  exits,       \* how many times the process has exited
  sigLog,      \* history: the signals delivered, where, and what the handler did
  errLog,      \* history: the non-signal errors raised
  iterations   \* history: completed idle-loop iterations (saturates at MaxIter)

vars == << py, fs0, fs, writable, pc, phase, task, exc, saved, handlers,
           setupDone, mustCancel, interrupts, stdout, logging, status,
           exitCode, exits, sigLog, errLog, iterations >>

Runtimes == {"py37", "py38", "py311"}
Dirs == {"logs", "data"}
Kinds == {"absent", "dir", "file"}
Signals == {"SIGINT", "SIGTERM"}

Min(a, b) == IF a < b THEN a ELSE b

AllDirs == [d \in Dirs |-> "dir"]

---------------------------------------------------------------------------
(* Directory setup, lines 54-55.                                           *)

\* Mutant of Mkdir: only logs/ is ever created.
MkdirLogsOnly(f, w, p) ==
  IF f[p] = "dir" THEN [fs |-> f, err |-> "none"]
  ELSE IF f[p] = "file" THEN [fs |-> f, err |-> "OSError"]
  ELSE IF w /\ p = "logs" THEN [fs |-> [f EXCEPT ![p] = "dir"], err |-> "none"]
  ELSE IF w THEN [fs |-> f, err |-> "none"]
  ELSE [fs |-> f, err |-> "OSError"]

\* Mutant of Mkdir: mkdir() without exist_ok=True.
MkdirNotExistOk(f, w, p) ==
  IF f[p] # "absent" THEN [fs |-> f, err |-> "OSError"]
  ELSE IF w THEN [fs |-> [f EXCEPT ![p] = "dir"], err |-> "none"]
  ELSE [fs |-> f, err |-> "OSError"]

\* Mutant of Mkdir: every OSError of os.mkdir is swallowed.
MkdirSwallow(f, w, p) ==
  IF f[p] = "absent" /\ w THEN [fs |-> [f EXCEPT ![p] = "dir"], err |-> "none"]
  ELSE [fs |-> f, err |-> "none"]

\* Path(p).mkdir(exist_ok=True): os.mkdir, and an OSError is swallowed only
\* when the path is a directory.
Mkdir(f, w, p) ==
  IF f[p] = "dir" THEN [fs |-> f, err |-> "none"]
  ELSE IF f[p] = "file" THEN [fs |-> f, err |-> "OSError"]
  ELSE IF w THEN [fs |-> [f EXCEPT ![p] = "dir"], err |-> "none"]
  ELSE [fs |-> f, err |-> "OSError"]

\* Lines 54 and 55 in sequence; line 55 does not run when line 54 raises.
Setup(f, w) ==
  LET a == Mkdir(f, w, "logs")
  IN  IF a.err # "none" THEN a ELSE Mkdir(a.fs, w, "data")

---------------------------------------------------------------------------
(* The text main() prints.                                                 *)

\* The print statements of main() before the loop: position and line printed.
PrintAt(p) ==
  CASE p = "L24" -> "banner"
    [] p = "L25" -> "rule"
    [] p = "L30" -> "principles_header"
    [] p = "L31" -> "principle_1"
    [] p = "L32" -> "principle_2"
    [] p = "L33" -> "principle_3"
    [] p = "L34" -> "principle_4"
    [] p = "L35" -> "principle_5"
    [] p = "L37" -> "starting_dev_mode"
    [] p = "L38" -> "starting_dashboard"
    [] p = "L39" -> "starting_api"
    [] p = "L40" -> "starting_ctrl_c"

PrintPcs == {"L24", "L25", "L30", "L31", "L32", "L33", "L34", "L35",
             "L37", "L38", "L39", "L40"}

\* The statement executed after the one at p, in main() before the loop.
\* Line 28 calls setup_signal_handlers(), whose statements are lines 19, 20.
After(p) ==
  CASE p = "L24" -> "L25"
    [] p = "L25" -> "L19"
    [] p = "L19" -> "L20"
    [] p = "L20" -> "L30"
    [] p = "L30" -> "L31"
    [] p = "L31" -> "L32"
    [] p = "L32" -> "L33"
    [] p = "L33" -> "L34"
    [] p = "L34" -> "L35"
    [] p = "L35" -> "L37"
    [] p = "L37" -> "L38"
    [] p = "L38" -> "L39"
    [] p = "L39" -> "L40"
    [] p = "L40" -> "L45"

ModulePcs == {"L54", "L55", "L58", "end"}
\* Statements of main() outside the try block.
BodyPcs == PrintPcs \cup {"L19", "L20", "L48", "L50"}
IdlePcs == {"L45", "L46"}

---------------------------------------------------------------------------
(* Signals.                                                                *)

\* Mutant of Register: the SIGTERM registration has no effect.
RegisterSigintOnly(h, sig) ==
  IF sig = "SIGINT" THEN [h EXCEPT ![sig] = "signal_handler"] ELSE h

\* Mutant of Register: the default disposition is installed.
RegisterDefault(h, sig) == [h EXCEPT ![sig] = "SIG_DFL"]

\* signal.signal(sig, signal_handler), lines 19 and 20.
Register(h, sig) == [h EXCEPT ![sig] = "signal_handler"]

\* Mutant of signal_handler: the handler logs and returns.
signal_handler_returns(signum) == "none"

\* Mutant of signal_handler: a second invocation fails.
signal_handler_once(signum) == IF logging THEN "RuntimeError" ELSE "SystemExit"

\* signal_handler, lines 15-17: logging.info(...) emits nothing (the root
\* logger's level is WARNING) and sys.exit(0) raises SystemExit.
signal_handler(signum) == "SystemExit"

\* The argument of sys.exit at line 17.
SysExitArg == 0

\* What delivering sig does in the current state.  SIG_DFL of SIGTERM kills
\* the process; default_int_handler raises KeyboardInterrupt; the handler
\* asyncio.run installs on 3.11+ cancels the main task on the first SIGINT
\* and raises KeyboardInterrupt on later ones; lines 15-17 otherwise.
Handle(sig) ==
  LET h == handlers[sig]
  IN  CASE h = "SIG_DFL" ->
             [handler |-> h, kill |-> TRUE, raise |-> "none",
              cancel |-> FALSE, log |-> FALSE]
        [] h = "default_int_handler" ->
             [handler |-> h, kill |-> FALSE, raise |-> "KeyboardInterrupt",
              cancel |-> FALSE, log |-> FALSE]
        [] h = "_on_sigint" ->
             IF interrupts = 0 /\ task # "finished"
             THEN [handler |-> h, kill |-> FALSE, raise |-> "none",
                   cancel |-> TRUE, log |-> FALSE]
             ELSE [handler |-> h, kill |-> FALSE, raise |-> "KeyboardInterrupt",
                   cancel |-> FALSE, log |-> FALSE]
        [] h = "signal_handler" ->
             [handler |-> h, kill |-> FALSE, raise |-> signal_handler(sig),
              cancel |-> FALSE, log |-> TRUE]

\* The exit status of the interpreter when exception e reaches line 58's
\* caller: SystemExit gives its argument, KeyboardInterrupt 128+SIGINT, any
\* other exception a traceback and 1.
ExitStatus(e) ==
  CASE e = "none" -> 0
    [] e = "SystemExit" -> SysExitArg
    [] e = "KeyboardInterrupt" -> 128 + 2
    [] OTHER -> 1

\* Mutant of IsException: line 49 catches OSError only.
IsExceptionNarrow(e) == e = "OSError"

\* Whether `except Exception` (line 49) catches e.  asyncio.CancelledError
\* derives from Exception on 3.7 and from BaseException since 3.8.
IsException(e) ==
  \/ e \in {"RuntimeError", "OSError"}
  \/ e = "CancelledError" /\ py = "py37"

---------------------------------------------------------------------------
Init ==
  /\ py \in Runtimes
  /\ fs0 \in [Dirs -> Kinds]
  /\ fs = fs0
  /\ writable \in BOOLEAN
  /\ pc = "L54"
  /\ phase = "module"
  /\ task = "none"
  /\ exc = "none"
  /\ saved = "none"
  /\ handlers = [s \in Signals |->
                   IF s = "SIGINT" THEN "default_int_handler" ELSE "SIG_DFL"]
  /\ setupDone = FALSE
  /\ mustCancel = FALSE
  /\ interrupts = 0
  /\ stdout = << >>
  /\ logging = FALSE
  /\ status = "running"
  /\ exitCode = -1
  /\ exits = 0
  /\ sigLog = << >>
  /\ errLog = {}
  /\ iterations = 0

Live == status = "running"
Normal == Live /\ exc = "none"

---------------------------------------------------------------------------
(* Module level, lines 52-58.                                              *)

\* Line 54: Path("logs").mkdir(exist_ok=True).
MkdirLogs ==
  /\ Normal /\ pc = "L54"
  /\ LET r == Mkdir(fs, writable, "logs")
     IN  /\ fs' = r.fs
         /\ exc' = r.err
         /\ errLog' = IF r.err = "none" THEN errLog ELSE errLog \cup {r.err}
         /\ pc' = IF r.err = "none" THEN "L55" ELSE pc
  /\ UNCHANGED << py, fs0, writable, phase, task, saved, handlers, setupDone,
                  mustCancel, interrupts, stdout, logging, status, exitCode,
                  exits, sigLog, iterations >>

\* Line 55: Path("data").mkdir(exist_ok=True).
MkdirData ==
  /\ Normal /\ pc = "L55"
  /\ LET r == Mkdir(fs, writable, "data")
     IN  /\ fs' = r.fs
         /\ exc' = r.err
         /\ errLog' = IF r.err = "none" THEN errLog ELSE errLog \cup {r.err}
         /\ pc' = IF r.err = "none" THEN "L58" ELSE pc
  /\ UNCHANGED << py, fs0, writable, phase, task, saved, handlers, setupDone,
                  mustCancel, interrupts, stdout, logging, status, exitCode,
                  exits, sigLog, iterations >>

\* Line 58, entering asyncio.run(main()): the loop and the main task are
\* created; on 3.11+ the runner replaces default_int_handler by its own
\* SIGINT handler for the duration of the run.
AsyncioRun ==
  /\ Normal /\ pc = "L58"
  /\ pc' = "start"
  /\ phase' = "run"
  /\ task' = "unstarted"
  /\ handlers' = IF py = "py311" /\ handlers["SIGINT"] = "default_int_handler"
                 THEN [handlers EXCEPT !["SIGINT"] = "_on_sigint"]
                 ELSE handlers
  /\ UNCHANGED << py, fs0, fs, writable, exc, saved, setupDone, mustCancel,
                  interrupts, stdout, logging, status, exitCode, exits,
                  sigLog, errLog, iterations >>

\* The interpreter leaves the module: after line 58 returns, or when an
\* exception reaches module level (a failed mkdir, or what asyncio.run raises).
Exit ==
  /\ Live /\ pc \in ModulePcs
  /\ exc # "none" \/ pc = "end"
  /\ status' = "exited"
  /\ exitCode' = ExitStatus(exc)
  /\ exits' = exits + 1
  /\ UNCHANGED << py, fs0, fs, writable, pc, phase, task, exc, saved, handlers,
                  setupDone, mustCancel, interrupts, stdout, logging, sigLog,
                  errLog, iterations >>

---------------------------------------------------------------------------
(* main(), lines 22-50.                                                    *)

\* The event loop steps the main task for the first time.  A task cancelled
\* before its first step never runs its body.
TaskStart ==
  /\ Normal /\ pc = "start"
  /\ IF mustCancel
     THEN /\ pc' = "ret"
          /\ task' = "finished"
          /\ exc' = "CancelledError"
          /\ mustCancel' = FALSE
     ELSE /\ pc' = "L24"
          /\ task' = "running"
          /\ UNCHANGED << exc, mustCancel >>
  /\ UNCHANGED << py, fs0, fs, writable, phase, saved, handlers, setupDone,
                  interrupts, stdout, logging, status, exitCode, exits, sigLog,
                  errLog, iterations >>

\* One print statement of lines 24-40.
PrintLine ==
  /\ Normal /\ pc \in PrintPcs
  /\ stdout' = Append(stdout, PrintAt(pc))
  /\ pc' = After(pc)
  /\ UNCHANGED << py, fs0, fs, writable, phase, task, exc, saved, handlers,
                  setupDone, mustCancel, interrupts, logging, status, exitCode,
                  exits, sigLog, errLog, iterations >>

\* Line 19: signal.signal(signal.SIGINT, signal_handler).
RegisterSigint ==
  /\ Normal /\ pc = "L19"
  /\ handlers' = Register(handlers, "SIGINT")
  /\ pc' = After(pc)
  /\ UNCHANGED << py, fs0, fs, writable, phase, task, exc, saved, setupDone,
                  mustCancel, interrupts, stdout, logging, status, exitCode,
                  exits, sigLog, errLog, iterations >>

\* Line 20: signal.signal(signal.SIGTERM, signal_handler), and the return of
\* setup_signal_handlers().
RegisterSigterm ==
  /\ Normal /\ pc = "L20"
  /\ handlers' = Register(handlers, "SIGTERM")
  /\ setupDone' = TRUE
  /\ pc' = After(pc)
  /\ UNCHANGED << py, fs0, fs, writable, phase, task, exc, saved, mustCancel,
                  interrupts, stdout, logging, status, exitCode, exits, sigLog,
                  errLog, iterations >>

\* Lines 45-46: `while True:` calls asyncio.sleep(1) and the task suspends.
EnterSleep ==
  /\ Normal /\ pc = "L45"
  /\ pc' = "L46"
  /\ task' = "suspended"
  /\ UNCHANGED << py, fs0, fs, writable, phase, exc, saved, handlers, setupDone,
                  mustCancel, interrupts, stdout, logging, status, exitCode,
                  exits, sigLog, errLog, iterations >>

\* Mutant of AfterSleep: the loop body runs once and main() returns.
AfterSleepReturns == "ret"

\* Where main() continues when asyncio.sleep(1) returns: the loop of line 45
\* has no exit condition.
AfterSleep == "L45"

\* Line 46: the sleep elapses and the task resumes.
SleepDone ==
  /\ Normal /\ pc = "L46" /\ ~mustCancel
  /\ pc' = AfterSleep
  /\ task' = IF AfterSleep = "ret" THEN "finished" ELSE "running"
  /\ iterations' = Min(iterations + 1, MaxIter)
  /\ UNCHANGED << py, fs0, fs, writable, phase, exc, saved, handlers, setupDone,
                  mustCancel, interrupts, stdout, logging, status, exitCode,
                  exits, sigLog, errLog >>

\* Line 46 with a cancellation requested before the task suspended (3.11+,
\* SIGINT during startup): CancelledError is thrown into main() at the await.
CancelWake ==
  /\ Normal /\ pc = "L46" /\ mustCancel
  /\ pc' = "L47"
  /\ task' = "running"
  /\ exc' = "CancelledError"
  /\ mustCancel' = FALSE
  /\ UNCHANGED << py, fs0, fs, writable, phase, saved, handlers, setupDone,
                  interrupts, stdout, logging, status, exitCode, exits, sigLog,
                  errLog, iterations >>

\* Line 46 raising a runtime error (a fault injected into one iteration).
SleepRaises ==
  /\ Normal /\ pc = "L46"
  /\ "RuntimeError" \notin errLog
  /\ pc' = "L47"
  /\ task' = "running"
  /\ exc' = "RuntimeError"
  /\ errLog' = errLog \cup {"RuntimeError"}
  /\ UNCHANGED << py, fs0, fs, writable, phase, saved, handlers, setupDone,
                  mustCancel, interrupts, stdout, logging, status, exitCode,
                  exits, sigLog, iterations >>

\* The except clause of lines 47-50 that handles e: "L48", "L50", or "ret"
\* when no clause matches and e leaves main().
ExceptClause(e) ==
  IF e = "KeyboardInterrupt" THEN "L48"
  ELSE IF IsException(e) THEN "L50"
  ELSE "ret"

\* Lines 47 and 49: an exception raised inside the try block meets the except
\* clauses.
ExceptClauses ==
  /\ Live /\ pc = "L47" /\ exc # "none"
  /\ pc' = ExceptClause(exc)
  /\ exc' = IF ExceptClause(exc) = "ret" THEN exc ELSE "none"
  /\ task' = IF ExceptClause(exc) = "ret" THEN "finished" ELSE task
  /\ UNCHANGED << py, fs0, fs, writable, phase, saved, handlers, setupDone,
                  mustCancel, interrupts, stdout, logging, status, exitCode,
                  exits, sigLog, errLog, iterations >>

\* Lines 48 and 50: the final status line, after which main() returns.
ExceptBody ==
  /\ Normal /\ pc \in {"L48", "L50"}
  /\ stdout' = Append(stdout, IF pc = "L48" THEN "shutdown_ack" ELSE "error_ack")
  /\ pc' = "ret"
  /\ task' = "finished"
  /\ UNCHANGED << py, fs0, fs, writable, phase, exc, saved, handlers, setupDone,
                  mustCancel, interrupts, logging, status, exitCode, exits,
                  sigLog, errLog, iterations >>

\* An exception raised in main() outside the try block leaves main().
PropagateFromMain ==
  /\ Live /\ pc \in BodyPcs /\ exc # "none"
  /\ pc' = "ret"
  /\ task' = "finished"
  /\ UNCHANGED << py, fs0, fs, writable, phase, exc, saved, handlers, setupDone,
                  mustCancel, interrupts, stdout, logging, status, exitCode,
                  exits, sigLog, errLog, iterations >>

---------------------------------------------------------------------------
(* asyncio.run, line 58: what surrounds main().                            *)

\* Leaving run_until_complete on 3.11+: the runner puts default_int_handler
\* back only when its own SIGINT handler is still the installed one.
RunnerRestore(h) ==
  IF h["SIGINT"] = "_on_sigint"
  THEN [h EXCEPT !["SIGINT"] = "default_int_handler"]
  ELSE h

\* What run_until_complete(main()) raises when the task ended with e: a task
\* cancelled by the runner's SIGINT handler surfaces as KeyboardInterrupt.
RunOutcome(e) ==
  LET out == IF e = "none" /\ mustCancel THEN "CancelledError" ELSE e
  IN  IF out = "CancelledError" /\ py = "py311" /\ interrupts > 0
      THEN "KeyboardInterrupt"
      ELSE out

\* main() has returned or raised: run_until_complete ends and asyncio.run
\* enters its cleanup holding what it will re-raise.
TaskReturn ==
  /\ Live /\ pc = "ret" /\ phase = "run"
  /\ saved' = RunOutcome(exc)
  /\ exc' = "none"
  /\ mustCancel' = FALSE
  /\ pc' = "cleanup"
  /\ phase' = "shutdown"
  /\ handlers' = RunnerRestore(handlers)
  /\ UNCHANGED << py, fs0, fs, writable, task, setupDone, interrupts, stdout,
                  logging, status, exitCode, exits, sigLog, errLog, iterations >>

\* An exception raised by a signal handler while the thread is in the event
\* loop and main() is not running (not yet started, or suspended at line 46):
\* it leaves run_until_complete without passing through main().
PropagateFromLoop ==
  /\ Live /\ pc \in {"start", "L46"} /\ phase = "run" /\ exc # "none"
  /\ saved' = exc
  /\ exc' = "none"
  /\ pc' = "cleanup"
  /\ phase' = "shutdown"
  /\ handlers' = RunnerRestore(handlers)
  /\ UNCHANGED << py, fs0, fs, writable, task, setupDone, mustCancel,
                  interrupts, stdout, logging, status, exitCode, exits, sigLog,
                  errLog, iterations >>

\* asyncio.run's cleanup, _cancel_all_tasks: a main task still suspended at
\* line 46 is cancelled, which throws CancelledError into main() there; a
\* task that never started is cancelled without running.  An exception raised
\* by a signal handler here skips the cancellation.
CancelAllTasks ==
  /\ Live /\ pc = "cleanup"
  /\ IF exc = "none" /\ task = "suspended"
     THEN /\ pc' = "L47"
          /\ exc' = "CancelledError"
          /\ task' = "running"
     ELSE /\ pc' = "close"
          /\ task' = IF exc = "none" /\ task = "unstarted" THEN "finished" ELSE task
          /\ UNCHANGED exc
  /\ UNCHANGED << py, fs0, fs, writable, phase, saved, handlers, setupDone,
                  mustCancel, interrupts, stdout, logging, status, exitCode,
                  exits, sigLog, errLog, iterations >>

\* The cancelled main() has ended during the cleanup: gather(...,
\* return_exceptions=True) keeps its CancelledError, while SystemExit and
\* KeyboardInterrupt leave the event loop.
GatherDone ==
  /\ Live /\ pc = "ret" /\ phase = "shutdown"
  /\ pc' = "close"
  /\ exc' = IF exc \in {"SystemExit", "KeyboardInterrupt"} THEN exc ELSE "none"
  /\ UNCHANGED << py, fs0, fs, writable, phase, task, saved, handlers, setupDone,
                  mustCancel, interrupts, stdout, logging, status, exitCode,
                  exits, sigLog, errLog, iterations >>

\* loop.close(), after which asyncio.run re-raises what it held, unless the
\* cleanup itself raised.
CloseLoop ==
  /\ Live /\ pc = "close"
  /\ pc' = "end"
  /\ phase' = "module"
  /\ exc' = IF exc # "none" THEN exc ELSE saved
  /\ saved' = "none"
  /\ UNCHANGED << py, fs0, fs, writable, task, handlers, setupDone, mustCancel,
                  interrupts, stdout, logging, status, exitCode, exits, sigLog,
                  errLog, iterations >>

---------------------------------------------------------------------------
(* The environment delivers a signal; the interpreter runs the handler     *)
(* between two statements of the main thread.                              *)

Deliver(sig) ==
  /\ Live /\ Len(sigLog) < MaxSignals
  /\ LET r == Handle(sig)
     IN  /\ sigLog' = Append(sigLog, [sig |-> sig, at |-> pc, handler |-> r.handler,
                                      raised |-> r.raise, afterSetup |-> setupDone])
         /\ IF r.kill
            THEN /\ status' = "killed"
                 /\ exitCode' = 128 + 15
                 /\ exits' = exits + 1
                 /\ UNCHANGED << pc, exc, mustCancel, interrupts, logging >>
            ELSE /\ exc' = IF r.raise # "none" THEN r.raise ELSE exc
                 /\ pc' = IF r.raise # "none" /\ pc = "L45" THEN "L47" ELSE pc
                 /\ mustCancel' = (mustCancel \/ r.cancel)
                 /\ interrupts' = IF r.handler = "_on_sigint"
                                  THEN interrupts + 1 ELSE interrupts
                 /\ logging' = (logging \/ r.log)
                 /\ UNCHANGED << status, exitCode, exits >>
  /\ UNCHANGED << py, fs0, fs, writable, phase, task, saved, handlers, setupDone,
                  stdout, errLog, iterations >>

---------------------------------------------------------------------------
\* The steps the program takes by itself.
Program ==
  \/ MkdirLogs
  \/ MkdirData
  \/ AsyncioRun
  \/ Exit
  \/ TaskStart
  \/ PrintLine
  \/ RegisterSigint
  \/ RegisterSigterm
  \/ EnterSleep
  \/ SleepDone
  \/ CancelWake
  \/ ExceptClauses
  \/ ExceptBody
  \/ PropagateFromMain
  \/ TaskReturn
  \/ PropagateFromLoop
  \/ CancelAllTasks
  \/ GatherDone
  \/ CloseLoop

Next ==
  \/ Program
  \/ SleepRaises
  \/ \E sig \in Signals : Deliver(sig)

Spec == Init /\ [][Next]_vars

\* The interpreter keeps executing the main thread: a step the program can
\* take is eventually taken.  Signals and faults are never forced.
LiveSpec == Init /\ [][Next]_vars /\ WF_vars(Program)

---------------------------------------------------------------------------
(* Properties.                                                             *)

Range(q) == {q[i] : i \in DOMAIN q}
Printed(line) == line \in Range(stdout)

RECURSIVE IsSubseq(_, _)
\* a occurs in b in order, other elements possibly between.
IsSubseq(a, b) ==
  IF a = << >> THEN TRUE
  ELSE IF b = << >> THEN FALSE
  ELSE IF Head(a) = Head(b) THEN IsSubseq(Tail(a), Tail(b))
  ELSE IsSubseq(a, Tail(b))

Clean == fs0 = [d \in Dirs |-> "absent"] /\ writable
Idling == Live /\ phase = "run" /\ pc \in IdlePcs

\* A signal (of kind sig) was delivered while the process was in its idle loop.
DeliveredWhileIdle(sig) ==
  \E i \in DOMAIN sigLog :
    sigLog[i].sig = sig /\ sigLog[i].at \in IdlePcs /\ sigLog[i].afterSetup

\* C1: when SIGINT is delivered to an instance in its idle loop (handlers
\* registered), the process eventually terminates, and it never terminates
\* otherwise than by exiting with code 0.
C1_SigintExitsZero ==
  /\ [](DeliveredWhileIdle("SIGINT") /\ ~Live => status = "exited" /\ exitCode = 0)
  /\ (DeliveredWhileIdle("SIGINT") ~> ~Live)

C1_Witness ==
  /\ Len(sigLog) = 1 /\ sigLog[1].sig = "SIGINT" /\ sigLog[1].at = "L46"
  /\ iterations >= 1
  /\ status = "exited" /\ exitCode = 0

\* main() has printed its whole startup text and reached the idle loop.
Started == Printed("starting_ctrl_c")

\* C2: every termination of an instance that reached its idle loop is
\* preceded by a final status line; a shutdown triggered by a signal received
\* while idling prints 'Shutdown requested by user', one triggered by an
\* error prints 'Unexpected error'.
C2_FinalStatusLine ==
  status = "exited" /\ Started =>
    /\ Printed("shutdown_ack") \/ Printed("error_ack")
    /\ (\E sig \in Signals : DeliveredWhileIdle(sig)) => Printed("shutdown_ack")
    /\ "RuntimeError" \in errLog /\ sigLog = << >> => Printed("error_ack")

\* The observable effect of delivering sig in the current state.
Effect(sig) ==
  [kill |-> Handle(sig).kill, raise |-> Handle(sig).raise,
   cancel |-> Handle(sig).cancel, log |-> Handle(sig).log]

\* C3 as stated: in every state of the running instance (asyncio.run(main())
\* has been entered and the process is alive), delivering SIGTERM has the same
\* effect as delivering SIGINT.
C3_ParityEverywhere ==
  Live /\ task # "none" => Effect("SIGTERM") = Effect("SIGINT")

\* C3 as amended: from the return of setup_signal_handlers() on, delivering
\* SIGTERM has the same effect as delivering SIGINT (the handler of lines
\* 15-17 runs, nothing is printed), and a process that received either signal
\* from then on terminates only by exiting with code 0.
C3_ParityAfterSetup ==
  /\ Live /\ setupDone =>
       /\ Effect("SIGTERM") = Effect("SIGINT")
       /\ Effect("SIGTERM").raise = "SystemExit" /\ ~Effect("SIGTERM").kill
  /\ \A i \in DOMAIN sigLog :
       sigLog[i].afterSetup /\ ~Live => status = "exited" /\ exitCode = 0

C3_Witness ==
  /\ Len(sigLog) = 1 /\ sigLog[1].sig = "SIGTERM" /\ sigLog[1].at = "L46"
  /\ sigLog[1].handler = "signal_handler"
  /\ status = "exited" /\ exitCode = 0

\* Two signals were delivered, the first one to an instance whose handlers
\* were registered.
TwoSignals == Len(sigLog) >= 2 /\ sigLog[1].afterSetup

FaultOnly == "RuntimeError" \in errLog /\ sigLog = << >>

\* C5: a runtime error raised by an iteration of the idle loop is caught
\* inside main() (it never propagates past the except clauses), the
\* 'Unexpected error' line is printed before main() returns, and the process
\* then exits with code 0.
C5_FaultContained ==
  /\ [](FaultOnly => (exc = "RuntimeError" => pc = "L47"))
  /\ [](FaultOnly /\ pc \in {"ret", "cleanup", "close", "end"} => Printed("error_ack"))
  /\ [](FaultOnly /\ ~Live => status = "exited" /\ exitCode = 0)
  /\ ("RuntimeError" \in errLog ~> ~Live)

C5_Witness ==
  /\ FaultOnly /\ iterations >= 1
  /\ Printed("error_ack") /\ status = "exited" /\ exitCode = 0

\* The banner, the five principles and the three service lines.
StartupText ==
  << "banner", "principle_1", "principle_2", "principle_3", "principle_4",
     "principle_5", "starting_dashboard", "starting_api", "starting_ctrl_c" >>

\* C6: whenever the process is idling, from the first wait on, stdout holds
\* the banner, the five principle lines and the three service lines in this
\* order, and logs/ and data/ both exist; in particular on a clean start.
C6_StartupBeforeIdle ==
  Idling => /\ IsSubseq(StartupText, stdout)
            /\ fs = AllDirs

C6_Witness ==
  /\ Clean /\ Idling /\ pc = "L46" /\ iterations = 0
  /\ exc = "none" /\ sigLog = << >>

\* C7: the process terminates, and main() leaves its idle loop, only after a
\* signal was delivered or an error was raised.
C7_ExitNeedsSignalOrError ==
  (~Live \/ pc \in {"L47", "L48", "L50", "ret", "cleanup", "close", "end"})
     => (sigLog # << >> \/ errLog # {})

C7_Witness ==
  /\ status = "exited" /\ iterations >= 1
  /\ Len(sigLog) = 1 /\ errLog = {}

\* Every directory is present, or absent and creatable.
Creatable(f, w) == \A d \in Dirs : f[d] = "dir" \/ (f[d] = "absent" /\ w)

\* C8: when each of logs/ and data/ exists or can be created, the setup
\* succeeds and leaves both present, whichever of them existed before; a
\* second setup changes nothing and succeeds too; and the process's own
\* lines 54-55 produce that state.
C8_SetupIdempotent ==
  Creatable(fs0, writable) =>
    LET once == Setup(fs0, writable)
    IN  /\ once = [fs |-> AllDirs, err |-> "none"]
        /\ Setup(once.fs, writable) = once
        /\ (pc \notin {"L54", "L55"} => fs = once.fs /\ "OSError" \notin errLog)

C8_Witness ==
  /\ fs0 = [d \in Dirs |-> IF d = "logs" THEN "dir" ELSE "absent"]
  /\ pc = "L58" /\ exc = "none" /\ fs = AllDirs

\* C9: the signal handler only records the request and returns normally; it
\* raises nothing in signal-handling context.
C9_HandlerReturnsNormally ==
  \A i \in DOMAIN sigLog :
    sigLog[i].handler = "signal_handler" => sigLog[i].raised = "none"

\* C10: no line is printed before both handlers are registered.
C10_HandlersBeforeOutput ==
  stdout # << >> => \A sig \in Signals : handlers[sig] = "signal_handler"

\* The handler of lines 15-17 has run.
HandlerRan == \E i \in DOMAIN sigLog : sigLog[i].handler = "signal_handler"

\* C11: once signal_handler has run, main() starts no further
\* asyncio.sleep(1) (no step from line 45 to line 46), no pending sleep
\* completes into another iteration, and no iteration is counted any more.
C11_NoSleepAfterSignal ==
  [][HandlerRan => /\ ~(pc = "L45" /\ pc' = "L46")
                   /\ ~(pc = "L46" /\ pc' = "L45")
                   /\ iterations' = iterations]_vars

C11_Witness ==
  /\ Len(sigLog) = 1 /\ sigLog[1].handler = "signal_handler"
  /\ sigLog[1].at = "L45" /\ iterations = 1
  /\ pc = "ret" /\ phase = "run" /\ exc = "SystemExit"

\* The dispositions the process starts with.
InitialHandlers ==
  [s \in Signals |-> IF s = "SIGINT" THEN "default_int_handler" ELSE "SIG_DFL"]

\* C12: when logs/ or data/ cannot be created (the path is a non-directory,
\* or is absent and the working directory is not writable), the process
\* never gets past lines 54-55: line 58 is not reached, no handler is
\* registered, nothing is printed, the loop is not entered; the OSError is
\* raised and the process terminates, never with code 0.
C12_SetupFailureAborts ==
  /\ [](~Creatable(fs0, writable) =>
          /\ pc \in {"L54", "L55"} /\ task = "none" /\ phase = "module"
          /\ handlers = InitialHandlers /\ ~setupDone
          /\ stdout = << >> /\ iterations = 0
          /\ (~Live => exitCode # 0))
  /\ [](~Creatable(fs0, writable) /\ status = "exited" /\ sigLog = << >> =>
          "OSError" \in errLog /\ exitCode = 1)
  /\ ("OSError" \in errLog ~> ~Live)

C12_Witness ==
  /\ fs0 = [d \in Dirs |-> IF d = "logs" THEN "dir" ELSE "file"]
  /\ "OSError" \in errLog /\ pc = "L55"
  /\ status = "exited" /\ exitCode = 1 /\ stdout = << >>

\* C13: each signal is bound to signal_handler by one step only (line 19
\* for SIGINT, line 20 for SIGTERM, from a state in which it was not bound
\* yet); from the return of setup_signal_handlers() on both signals are
\* bound to signal_handler and no step, of the handler or of the shutdown
\* path, changes a disposition.
C13_RegisteredOnce ==
  /\ [](setupDone => \A s \in Signals : handlers[s] = "signal_handler")
  /\ [][setupDone => handlers' = handlers]_vars
  /\ [][\A s \in Signals :
          handlers'[s] = "signal_handler" /\ handlers[s] # "signal_handler"
            => pc = (IF s = "SIGINT" THEN "L19" ELSE "L20") /\ ~setupDone]_vars

C13_Witness ==
  /\ setupDone /\ status = "exited"
  /\ Len(sigLog) = 2 /\ sigLog[1].afterSetup
  /\ sigLog[1].sig = "SIGINT" /\ sigLog[2].sig = "SIGTERM"
  /\ sigLog[2].handler = "signal_handler"
  /\ \A s \in Signals : handlers[s] = "signal_handler"

====
